---- MODULE Spec2Model ----
(***************************************************************************)
(* Model of brownie/network/rpc/__init__.py: the Rpc singleton that        *)
(* launches, attaches to and kills a local RPC client process.             *)
(*                                                                         *)
(* The Rpc methods are sequential, but the operating system is not: the    *)
(* backend process and its children may exit at any moment.  Each method   *)
(* is therefore cut at the points where it looks at the OS (is_running,    *)
(* children, kill) and the environment actions interleave between them.    *)
(*                                                                         *)
(* Process status, after psutil:                                           *)
(*   "running"  the process executes                                       *)
(*   "zombie"   it has exited and its parent has not reaped it yet;        *)
(*              psutil's is_running() is still True, kill() succeeds       *)
(*   "gone"     it has exited and was reaped; is_running() is False and    *)
(*              kill()/parent() raise NoSuchProcess                        *)
(* A process launched by Rpc is Rpc's child: it stays a zombie until Rpc   *)
(* calls poll() or wait().  A process Rpc attached to, and the children    *)
(* of the backend, are reaped by their own parent as soon as they exit.    *)
(***************************************************************************)
EXTENDS Integers, Sequences, FiniteSets, TLC

VARIABLES
    pc,           \* position of the running method, "idle" between calls
    process,      \* Rpc.process: None or the handle [type, pid]
    backend,      \* Rpc.backend: "ganache" or "geth"
    chainStatus,  \* last notification the chain object received
    discSince,    \* disconnect notifications since the last connect
    mainSt,       \* OS status of the process the handle was made for
    mainParent,   \* "self" if Rpc started that process, "other" if not
    ownExit,      \* that process exited on its own (was not killed by Rpc)
    childSt,      \* OS status of each child of that process
    i,            \* loop variable of launch's poll
    todo,         \* kill: children enumerated and not yet visited
    enumerated,   \* kill: children returned by process.children()
    ret,          \* kill: where it was called from
    killExc,      \* kill: its exc argument
    opName,       \* the method called last
    opCmd,        \* launch: cmd
    opExc,        \* kill: exc as given by the caller
    provider,     \* launch: web3.provider is set
    err,          \* outcome of the call: "pending", "ok" or the error
    errProc,      \* RPCConnectionError: its process argument
    nConn,        \* chain._network_connected() calls during the call
    nDisc,        \* chain._network_disconnected() calls during the call
    nOnConn,      \* backend.on_connection() calls during the call
    pollOk,       \* launch: isConnected() returned True
    signalled,    \* sent SIGKILL during the call: children, 0 the process
    prevKillF,    \* this call is a kill and the one before it was kill(False)
    polled,       \* launch: web3.isConnected() was called during the call
    callLog,      \* chain and backend notifications of the call, in order
    opView,       \* attach: the address looked for, what psutil showed and
                  \* the web3.clientVersion read
    stdout,       \* process.stdout: "None", or the pipe "open" or "closed"
    stderr,       \* process.stderr: "None", or the pipe "open" or "closed"
    nClose        \* close() calls on the pipes of the process

vars == <<pc, process, backend, chainStatus, discSince, mainSt, mainParent,
          ownExit, childSt, i, todo, enumerated, ret, killExc, opName, opCmd,
          opExc, provider, err, errProc, nConn, nDisc, nOnConn, pollOk,
          signalled, prevKillF, polled, callLog, opView, stdout, stderr,
          nClose>>

----------------------------------------------------------------------------
(* Bounds and program constants *)

MaxChildren == 2

PollCap == 100

Children == 1..MaxChildren

\* Rpc.process = None: no handle
None == [type |-> "None", pid |-> "None"]

\* a connection without a pid, a URI without a port
Absent == "None"

\* no attach has looked at the OS during the call
NoView == [addr |-> <<Absent, Absent>>, procs |-> << >>, conns |-> << >>,
           version |-> << >>]

\* subprocess: the stdout and stderr of a child started with PIPE are pipe
\* objects, and None otherwise
Captured(pipe) == IF pipe THEN "open" ELSE "None"

----------------------------------------------------------------------------
(* Commands and version strings are sequences of characters *)

Str_ganache == <<"g","a","n","a","c","h","e">>
Str_ethnode == <<"e","t","h","n","o","d","e">>
Str_geth == <<"g","e","t","h">>
Str_testrpc == <<"e","t","h","e","r","e","u","m","j","s"," ","t","e","s","t","r","p","c">>

Upper == [c \in {"G","A","N","C","H","E","T","O","D","J","S","R","P","U","M"} |->
            CASE c = "G" -> "g" [] c = "A" -> "a" [] c = "N" -> "n"
              [] c = "C" -> "c" [] c = "H" -> "h" [] c = "E" -> "e"
              [] c = "T" -> "t" [] c = "O" -> "o" [] c = "D" -> "d"
              [] c = "J" -> "j" [] c = "S" -> "s" [] c = "R" -> "r"
              [] c = "P" -> "p" [] c = "U" -> "u" [] c = "M" -> "m"]

\* the case is not folded
lower_CaseKept(s) == s

\* str.lower()
lower(s) == [k \in 1..Len(s) |-> IF s[k] \in DOMAIN Upper THEN Upper[s[k]] ELSE s[k]]

startswith(s, key) == Len(s) >= Len(key) /\ SubSeq(s, 1, Len(key)) = key

LAUNCH_BACKENDS == << <<Str_ganache, "ganache">>,
                      <<Str_ethnode, "geth">>,
                      <<Str_geth, "geth">> >>

ATTACH_BACKENDS == << <<Str_testrpc, "ganache">>,
                      <<Str_geth, "geth">> >>

\* "for key, module in TABLE.items(): if s.lower().startswith(key):
\*      self.backend = module; break"
RECURSIVE SelectFrom(_, _, _, _)
SelectFrom(table, k, s, cur) ==
    IF k > Len(table) THEN cur
    ELSE IF startswith(lower(s), table[k][1]) THEN table[k][2]
    ELSE SelectFrom(table, k + 1, s, cur)

SelectLaunchBackend(cmd, cur) == SelectFrom(LAUNCH_BACKENDS, 1, cmd, cur)

SelectAttachBackend(version, cur) == SelectFrom(ATTACH_BACKENDS, 1, version, cur)

Cmds == { <<"g","a","n","a","c","h","e","-","c","l","i">>,
          <<"G","e","t","h"," ","-","-","d","e","v">>,
          <<"E","T","H","N","O","D","E">>,
          <<"g","e","t">>,
          <<"n","o","d","e"," ","g","e","t","h">> }

Versions == { <<"E","t","h","e","r","e","u","m","J","S"," ","T","e","s","t","R","P","C","/","v","2">>,
              <<"G","e","t","h","/","v","1">>,
              <<"P","a","r","i","t","y">> }

----------------------------------------------------------------------------
(* The operating system, as psutil shows it *)

\* psutil.Process.is_running(): True for a running process and for a zombie
is_running(st) == st \in {"running", "zombie"}

\* poll() forgotten: an exited child is never reaped
poll_Forgotten(h, st) == st

\* psutil.Popen.poll(): reaps the child if it has exited.  Only a handle
\* made by backend.launch is a psutil.Popen (isinstance test, lines 89, 154)
poll(h, st) == IF h # None /\ h.type = "Popen" /\ st = "zombie" THEN "gone" ELSE st

\* the OS is not asked: a session with a handle counts as active
is_active_HandleOnly(h, st) == h # None

\* Rpc.is_active, on the status poll() leaves behind
is_active(h, st) ==
    IF h = None THEN FALSE
    ELSE is_running(poll(h, st))

\* what is_active() would return in the current state
IsActive == is_active(process, mainSt)

\* process.children(): the running children of a process that still exists,
\* in pid order; a process that has exited has none (they were re-parented)
RECURSIVE ChildrenFrom(_, _)
ChildrenFrom(k, cs) ==
    IF k > MaxChildren THEN << >>
    ELSE IF cs[k] = "running" THEN <<k>> \o ChildrenFrom(k + 1, cs)
    ELSE ChildrenFrom(k + 1, cs)

\* the children are not looked for
children_None(st, cs) == << >>

children(st, cs) == IF st = "running" THEN ChildrenFrom(1, cs) ELSE << >>

\* psutil.Process.kill(): SIGKILL, or NoSuchProcess if the pid is gone
KillError(st) == IF st \in {"running", "zombie"} THEN "ok" ELSE "NoSuchProcess"

\* the except clause is missing
ChildErrorRaised(e) == FALSE

\* "except psutil.NoSuchProcess: pass" around child.kill()
ChildErrorSwallowed(e) == e = "NoSuchProcess"

\* the children loop of kill has finished: process.kill() comes after it
ChildrenDone(td) == td = << >>

SeqToSet(s) == {s[k] : k \in 1..Len(s)}

NoChildren == [c \in Children |-> "none"]

\* a fresh process with n running children
Spawned(n) == [c \in Children |-> IF c <= n THEN "running" ELSE "none"]

----------------------------------------------------------------------------
(* The chain object's notifications *)

\* chain._network_disconnected() counted since the last _network_connected()
MoreDisc(d) == IF d = "zero" THEN "one" ELSE "many"

----------------------------------------------------------------------------
Init ==
    /\ pc = "idle"
    /\ process = None
    /\ backend = "ganache"
    /\ chainStatus = "none"
    /\ discSince = "zero"
    /\ mainSt = "none"
    /\ mainParent = "none"
    /\ ownExit = FALSE
    /\ childSt = NoChildren
    /\ i = 0
    /\ todo = << >>
    /\ enumerated = {}
    /\ ret = "idle"
    /\ killExc = FALSE
    /\ opName = "none"
    /\ opCmd = << >>
    /\ opExc = FALSE
    /\ provider = FALSE
    /\ err = "ok"
    /\ errProc = None
    /\ nConn = 0
    /\ nDisc = 0
    /\ nOnConn = 0
    /\ pollOk = FALSE
    /\ signalled = {}
    /\ prevKillF = FALSE
    /\ polled = FALSE
    /\ callLog = << >>
    /\ opView = NoView
    /\ stdout = "None"
    /\ stderr = "None"
    /\ nClose = 0

osVars == <<mainSt, mainParent, ownExit, childSt>>
killVars == <<todo, enumerated, ret, killExc>>
chainVars == <<chainStatus, discSince>>
opVars == <<opName, opCmd, opExc, provider, prevKillF, opView>>
countVars == <<nConn, nDisc, nOnConn, pollOk, signalled, polled, callLog>>
streamVars == <<stdout, stderr, nClose>>

\* a method is called: the record of the previous call is replaced
BeginOp(name, cmd, exc, prov) ==
    /\ pc = "idle"
    /\ opName' = name
    /\ opCmd' = cmd
    /\ opExc' = exc
    /\ provider' = prov
    /\ prevKillF' = (name = "kill" /\ opName = "kill" /\ ~opExc)


----------------------------------------------------------------------------
(* Rpc.launch, lines 67-95 *)

\* the guard is missing
LaunchNeverBlocked(h, st) == FALSE

\* "if self.is_active(): raise SystemError"
LaunchBlocked(h, st) == is_active(h, st)

\* a provider is taken to be set whatever web3 says
HasProvider_Always(prov) == TRUE

\* "if not web3.provider": web3 has an RPC provider set
HasProvider(prov) == prov

\* lines 67-81: the guard, the backend selection, backend.launch and the
\* return when web3 has no provider
Launch(cmd, prov, n, pipe) ==
    /\ BeginOp("launch", cmd, FALSE, prov)
    /\ nConn' = 0 /\ nOnConn' = 0
    /\ pollOk' = FALSE /\ signalled' = {}
    /\ polled' = FALSE
    /\ opView' = NoView
    /\ errProc' = None
    /\ enumerated' = {}
    /\ UNCHANGED <<todo, ret, killExc>>
    /\ IF LaunchBlocked(process, mainSt)
       THEN /\ err' = "AlreadyActive"
            /\ pc' = "idle"
            /\ mainSt' = poll(process, mainSt)
            /\ nDisc' = 0
            /\ callLog' = << >>
            /\ UNCHANGED <<process, backend, chainVars, mainParent, ownExit,
                           childSt, i, streamVars>>
       ELSE /\ backend' = SelectLaunchBackend(cmd, backend)
            /\ process' = [type |-> "Popen", pid |-> "p1"]
            /\ mainSt' = "running"
            /\ mainParent' = "self"
            /\ ownExit' = FALSE
            /\ childSt' = Spawned(n)
            /\ stdout' = Captured(pipe)
            /\ stderr' = Captured(pipe)
            /\ nClose' = 0
            /\ i' = 0
            /\ IF ~HasProvider(prov)
               THEN /\ chainStatus' = "disconnected"
                    /\ discSince' = MoreDisc(discSince)
                    /\ nDisc' = 1
                    /\ callLog' = <<"disconnected">>
                    /\ err' = "ok"
                    /\ pc' = "idle"
               ELSE /\ UNCHANGED chainVars
                    /\ nDisc' = 0
                    /\ callLog' = << >>
                    /\ err' = "pending"
                    /\ pc' = "l_conn"

\* lines 84-87: one web3.isConnected() check of the poll
LaunchConn ==
    /\ pc = "l_conn"
    /\ \E c \in BOOLEAN :
        IF c
        THEN /\ chainStatus' = "connected"
             /\ discSince' = "zero"
             /\ nConn' = nConn + 1
             /\ nOnConn' = nOnConn + 1
             /\ pollOk' = TRUE
             /\ callLog' = callLog \o <<"connected", "on_connection">>
             /\ err' = "ok"
             /\ pc' = "idle"
             /\ i' = 0
        ELSE /\ pc' = "l_live"
             /\ UNCHANGED <<chainVars, nConn, nOnConn, pollOk, callLog, err,
                            i>>
    /\ polled' = TRUE
    /\ UNCHANGED <<process, backend, osVars, killVars, opVars, errProc,
                   nDisc, signalled, streamVars>>

\* the loop gives up one pass early
PollGoesOn_OneShort(k) == k + 2 < PollCap

\* range(100): the loop goes on while the next index is below the cap
PollGoesOn(k) == k + 1 < PollCap

\* lines 88-94: the sleep, the liveness check, and the call of kill(False)
\* either when the process has exited or when the loop is exhausted
LaunchLive ==
    /\ pc = "l_live"
    /\ mainSt' = poll(process, mainSt)
    /\ IF ~is_running(mainSt')
       THEN /\ pc' = "k_check"
            /\ ret' = "l_exited"
            /\ killExc' = FALSE
            /\ i' = i
       ELSE IF PollGoesOn(i)
       THEN /\ pc' = "l_conn"
            /\ i' = i + 1
            /\ UNCHANGED <<ret, killExc>>
       ELSE /\ pc' = "k_check"
            /\ ret' = "l_timeout"
            /\ killExc' = FALSE
            /\ i' = i
    /\ UNCHANGED <<process, backend, chainVars, mainParent, ownExit, childSt,
                   todo, enumerated, opVars, err, errProc, countVars,
                   streamVars>>

----------------------------------------------------------------------------
(* Rpc.kill, lines 126-148 *)

\* what the caller of kill does when kill returns ("ok") or raises (e):
\* launch raises RPCProcessError (line 93) or RPCConnectionError (line 95)
ErrAfterKill(r, e) ==
    IF e # "ok" THEN e
    ELSE CASE r = "l_exited" -> "ProcessExited"
           [] r = "l_timeout" -> "Timeout"
           [] OTHER -> "ok"

\* RPCConnectionError(cmd, self.process, uri): the handle as it is then
ErrProcAfterKill(r, e, h) == IF e = "ok" /\ r = "l_timeout" THEN h ELSE None

KillReturn(e) ==
    /\ err' = ErrAfterKill(ret, e)
    /\ errProc' = ErrProcAfterKill(ret, e, process')
    /\ pc' = IF ret = "ae" THEN "exited" ELSE "idle"
    /\ ret' = "idle"
    /\ killExc' = FALSE
    /\ todo' = << >>
    /\ i' = 0

\* exc is ignored
InactiveKillRaises(exc) == "NotActive"

\* lines 132-134: the outcome of kill on an inactive session
InactiveKillError(exc) == IF exc THEN "NotActive" ELSE "ok"

\* the call of kill by the user
Kill(exc) ==
    /\ BeginOp("kill", << >>, exc, FALSE)
    /\ pc' = "k_check"
    /\ ret' = "idle"
    /\ killExc' = exc
    /\ err' = "pending"
    /\ errProc' = None
    /\ nConn' = 0 /\ nDisc' = 0 /\ nOnConn' = 0
    /\ pollOk' = FALSE /\ signalled' = {}
    /\ polled' = FALSE /\ callLog' = << >>
    /\ opView' = NoView
    /\ todo' = << >> /\ enumerated' = {}
    /\ UNCHANGED <<process, backend, chainVars, osVars, i, streamVars>>

\* lines 131-140: the guard and process.children()
KillCheck ==
    /\ pc = "k_check"
    /\ mainSt' = poll(process, mainSt)
    /\ process' = process
    /\ IF ~is_active(process, mainSt)
       THEN /\ KillReturn(InactiveKillError(killExc))
            /\ UNCHANGED enumerated
       ELSE /\ todo' = children(mainSt', childSt)
            /\ enumerated' = SeqToSet(todo')
            /\ pc' = "k_child"
            /\ UNCHANGED <<err, errProc, i, ret, killExc>>
    /\ UNCHANGED <<backend, chainVars, mainParent, ownExit, childSt, opVars,
                   countVars, streamVars>>

\* lines 140-144: child.kill() for the next enumerated child
KillChild ==
    /\ pc = "k_child"
    /\ ~ChildrenDone(todo)
    /\ process' = process
    /\ LET c == Head(todo)
           e == KillError(childSt[c])
       IN  IF e = "ok"
           THEN /\ childSt' = [childSt EXCEPT ![c] = "gone"]
                /\ signalled' = signalled \cup {c}
                /\ todo' = Tail(todo)
                /\ UNCHANGED <<pc, err, errProc, i, ret, killExc>>
           ELSE IF ChildErrorSwallowed(e)
           THEN /\ todo' = Tail(todo)
                /\ UNCHANGED <<pc, err, errProc, i, ret, killExc, childSt,
                               signalled>>
           ELSE /\ KillReturn(e)
                /\ UNCHANGED <<childSt, signalled>>
    /\ UNCHANGED <<backend, chainVars, mainSt, mainParent, ownExit,
                   enumerated, opVars, nConn, nDisc, nOnConn, pollOk, polled,
                   callLog, streamVars>>

\* process.wait(): returns once the process has exited and is reaped
wait(st) == "gone"

\* kill without the last line: the chain is not told
KillMainSilent ==
    /\ pc = "k_child"
    /\ ChildrenDone(todo)
    /\ LET e == KillError(mainSt)
       IN  IF e # "ok"
           THEN /\ process' = process
                /\ KillReturn(e)
                /\ UNCHANGED <<mainSt, signalled>>
           ELSE /\ signalled' = signalled \cup {0}
                /\ mainSt' = wait(mainSt)
                /\ process' = None
                /\ KillReturn("ok")
    /\ UNCHANGED <<backend, chainVars, nDisc, mainParent, ownExit, childSt,
                   enumerated, opVars, nConn, nOnConn, pollOk, polled,
                   callLog, streamVars>>

\* lines 145-148: process.kill(), process.wait(), the handle is cleared and
\* the chain is told; NoSuchProcess from process.kill() is not caught
KillMain ==
    /\ pc = "k_child"
    /\ ChildrenDone(todo)
    /\ LET e == KillError(mainSt)
       IN  IF e # "ok"
           THEN /\ process' = process
                /\ KillReturn(e)
                /\ UNCHANGED <<mainSt, chainVars, nDisc, signalled,
                               callLog>>
           ELSE /\ signalled' = signalled \cup {0}
                /\ mainSt' = wait(mainSt)
                /\ process' = None
                /\ chainStatus' = "disconnected"
                /\ discSince' = MoreDisc(discSince)
                /\ nDisc' = nDisc + 1
                /\ callLog' = Append(callLog, "disconnected")
                /\ KillReturn("ok")
    /\ UNCHANGED <<backend, mainParent, ownExit, childSt, enumerated, opVars,
                   nConn, nOnConn, pollOk, polled, streamVars>>


----------------------------------------------------------------------------
(* The process finder, lines 186-222 *)

PsutilErrors == {"AccessDenied", "ZombieProcess", "NoSuchProcess"}

\* a process of process_iter(): proc.connections() raises a psutil error
\* or gives the connections, of which conns are the local addresses
_check_proc_connections(proc, laddr) ==
    IF proc.raises \in PsutilErrors THEN FALSE
    ELSE laddr \in proc.conns

_check_net_connections(connection, laddr) ==
    IF connection.pid = Absent THEN FALSE
    ELSE IF connection.laddr = laddr THEN TRUE
    ELSE IF connection.raddr = laddr THEN TRUE
    ELSE FALSE

\* next(i for i in net_connections if _check_net_connections(i, laddr))
RECURSIVE NextNet(_, _, _)
NextNet(conns, k, laddr) ==
    IF k > Len(conns) THEN "ProcessLookupError"
    ELSE IF _check_net_connections(conns[k], laddr) THEN conns[k].pid
    ELSE NextNet(conns, k + 1, laddr)

\* next(i for i in process_iter if _check_proc_connections(i, laddr))
RECURSIVE NextProc(_, _, _)
NextProc(procs, k, laddr) ==
    IF k > Len(procs) THEN "StopIteration"
    ELSE IF _check_proc_connections(procs[k], laddr) THEN procs[k].pid
    ELSE NextProc(procs, k + 1, laddr)

_find_rpc_process_pid(procs, conns, laddr) ==
    IF NextProc(procs, 1, laddr) # "StopIteration"
    THEN NextProc(procs, 1, laddr)
    ELSE NextNet(conns, 1, laddr)

\* the address the RPC client listens at, and other ones
RpcAddr == <<"127.0.0.1", "8545">>
OtherAddr == <<"127.0.0.1", "9999">>
FarAddr == <<"10.0.0.5", "8545">>

\* what psutil shows when attach looks: process_iter() and net_connections()
OsViews ==
    { [procs |-> << >>, conns |-> << >>],
      [procs |-> << [pid |-> "p7", raises |-> "AccessDenied", conns |-> {}] >>,
       conns |-> << [pid |-> Absent, laddr |-> RpcAddr, raddr |-> OtherAddr] >>],
      [procs |-> << [pid |-> "p7", raises |-> "ZombieProcess", conns |-> {}],
                    [pid |-> "p8", raises |-> "no", conns |-> {OtherAddr, RpcAddr}] >>,
       conns |-> << >>],
      [procs |-> << [pid |-> "p7", raises |-> "no", conns |-> {RpcAddr}],
                    [pid |-> "p8", raises |-> "no", conns |-> {RpcAddr}] >>,
       conns |-> << [pid |-> "p8", laddr |-> RpcAddr, raddr |-> OtherAddr] >>],
      [procs |-> << [pid |-> "p7", raises |-> "NoSuchProcess", conns |-> {}],
                    [pid |-> "p8", raises |-> "no", conns |-> {OtherAddr}] >>,
       conns |-> << [pid |-> Absent, laddr |-> RpcAddr, raddr |-> OtherAddr],
                    [pid |-> "p8", laddr |-> OtherAddr, raddr |-> RpcAddr] >>],
      [procs |-> << >>,
       conns |-> << [pid |-> "p7", laddr |-> RpcAddr, raddr |-> OtherAddr] >>],
      [procs |-> << [pid |-> "p8", raises |-> "no", conns |-> {OtherAddr}] >>,
       conns |-> << [pid |-> "p7", laddr |-> OtherAddr, raddr |-> FarAddr] >>] }

----------------------------------------------------------------------------
(* Rpc.attach, lines 97-124 *)

\* the laddr argument: a URI (kind "str", as urlparse splits it into
\* hostname and port, the port None when the URI names none) or a tuple
Laddrs ==
    { [kind |-> "str", hostname |-> "localhost", port |-> "8545"],
      [kind |-> "str", hostname |-> "localhost", port |-> Absent],
      [kind |-> "tuple", hostname |-> "127.0.0.1", port |-> "8545"],
      [kind |-> "tuple", hostname |-> "localhost", port |-> "9999"] }

\* lines 105-108: "if isinstance(laddr, str): ... if not o.port: raise"
NoPort(laddr) == laddr.kind = "str" /\ laddr.port = Absent

\* socket.gethostbyname
gethostbyname(host) == IF host = "localhost" THEN "127.0.0.1" ELSE host

\* lines 111-112
resolved_addr(laddr) == <<gethostbyname(laddr.hostname), laddr.port>>

\* "if self.is_active(): raise SystemError"
AttachBlocked(h, st) == is_active(h, st)

\* lines 103-116: the guard, the address, the finder and the new handle
Attach ==
    /\ BeginOp("attach", << >>, FALSE, FALSE)
    /\ nConn' = 0 /\ nDisc' = 0 /\ nOnConn' = 0
    /\ pollOk' = FALSE /\ signalled' = {}
    /\ polled' = FALSE /\ callLog' = << >>
    /\ errProc' = None
    /\ enumerated' = {}
    /\ UNCHANGED <<backend, chainVars, i, todo, ret, killExc>>
    /\ IF AttachBlocked(process, mainSt)
       THEN /\ err' = "AlreadyActive"
            /\ pc' = "idle"
            /\ mainSt' = poll(process, mainSt)
            /\ opView' = NoView
            /\ UNCHANGED <<process, mainParent, ownExit, childSt, streamVars>>
       ELSE \E laddr \in Laddrs :
            IF NoPort(laddr)
            THEN /\ err' = "ValueError"
                 /\ pc' = "idle"
                 /\ mainSt' = poll(process, mainSt)
                 /\ opView' = NoView
                 /\ UNCHANGED <<process, mainParent, ownExit, childSt,
                                streamVars>>
            ELSE \E os \in OsViews :
                 LET pid == _find_rpc_process_pid(os.procs, os.conns, resolved_addr(laddr))
                 IN  /\ opView' = [addr |-> resolved_addr(laddr),
                                   procs |-> os.procs, conns |-> os.conns,
                                   version |-> << >>]
                     /\ IF pid = "ProcessLookupError"
                        THEN /\ err' = "ProcessLookupError"
                             /\ pc' = "idle"
                             /\ mainSt' = poll(process, mainSt)
                             /\ UNCHANGED <<process, mainParent, ownExit,
                                            childSt, streamVars>>
                        ELSE \E n \in 0..MaxChildren :
                             /\ process' = [type |-> "Process", pid |-> pid]
                             /\ mainSt' = "running"
                             /\ mainParent' = "other"
                             /\ ownExit' = FALSE
                             /\ childSt' = Spawned(n)
                             /\ stdout' = "None"
                             /\ stderr' = "None"
                             /\ nClose' = 0
                             /\ err' = "pending"
                             /\ pc' = "a_version"

\* lines 118-124: web3.clientVersion gives a string or the RPC client
\* raises; the backend is selected, the chain and the backend are told
AttachVersion ==
    /\ pc = "a_version"
    /\ pc' = "idle"
    /\ \E version \in Versions, rpcOk \in BOOLEAN :
        IF ~rpcOk
        THEN /\ err' = "RpcError"
             /\ UNCHANGED <<backend, chainVars, nConn, nOnConn, callLog,
                            opView>>
        ELSE /\ opView' = [opView EXCEPT !.version = version]
             /\ backend' = SelectAttachBackend(version, backend)
             /\ chainStatus' = "connected"
             /\ discSince' = "zero"
             /\ nConn' = nConn + 1
             /\ nOnConn' = nOnConn + 1
             /\ callLog' = callLog \o <<"connected", "on_connection">>
             /\ err' = "ok"
    /\ UNCHANGED <<process, osVars, i, killVars, opName, opCmd, opExc,
                   provider, prevKillF, errProc, nDisc, pollOk, signalled,
                   polled, streamVars>>

----------------------------------------------------------------------------
(* Rpc.is_active called by the user, and Rpc._at_exit, lines 57-65 *)

IsActiveCall ==
    /\ BeginOp("is_active", << >>, FALSE, FALSE)
    /\ pc' = "idle"
    /\ mainSt' = poll(process, mainSt)
    /\ err' = "ok"
    /\ errProc' = None
    /\ nConn' = 0 /\ nDisc' = 0 /\ nOnConn' = 0
    /\ pollOk' = FALSE /\ signalled' = {}
    /\ polled' = FALSE /\ callLog' = << >>
    /\ opView' = NoView
    /\ enumerated' = {}
    /\ UNCHANGED <<process, backend, chainVars, mainParent, ownExit, childSt,
                   i, todo, ret, killExc, streamVars>>

\* lines 164-183: sleep, mine, snapshot, revert and unlock_account hand the
\* call to the backend module; Rpc's own state is neither read nor written
ControlCall ==
    /\ BeginOp("control", << >>, FALSE, FALSE)
    /\ pc' = "idle"
    /\ err' = "ok"
    /\ errProc' = None
    /\ nConn' = 0 /\ nDisc' = 0 /\ nOnConn' = 0
    /\ pollOk' = FALSE /\ signalled' = {}
    /\ polled' = FALSE /\ callLog' = << >>
    /\ opView' = NoView
    /\ enumerated' = {}
    /\ UNCHANGED <<process, backend, chainVars, osVars, i, todo, ret, killExc,
                   streamVars>>

\* line 58: the exit hook runs once, when the program ends
AtExit ==
    /\ BeginOp("at_exit", << >>, FALSE, FALSE)
    /\ mainSt' = poll(process, mainSt)
    /\ IF ~is_active(process, mainSt)
       THEN pc' = "exited" /\ err' = "ok"
       ELSE pc' = "ae_parent" /\ err' = "pending"
    /\ errProc' = None
    /\ nConn' = 0 /\ nDisc' = 0 /\ nOnConn' = 0
    /\ pollOk' = FALSE /\ signalled' = {}
    /\ polled' = FALSE /\ callLog' = << >>
    /\ opView' = NoView
    /\ enumerated' = {}
    /\ UNCHANGED <<process, backend, chainVars, mainParent, ownExit, childSt,
                   i, todo, ret, killExc, streamVars>>

\* psutil.Process.parent(): NoSuchProcess if the pid is gone
ParentError(st) == IF st = "gone" THEN "NoSuchProcess" ELSE "ok"

\* lines 61-64: "if getattr(self.process, name, None) is not None:
\* self.process.<name>.close()"; closing a closed pipe does nothing
close(stream) == IF stream = "None" THEN "None" ELSE "closed"

\* the close() calls lines 61-64 make on the two streams
Closes(out, errStream) ==
    (IF out = "None" THEN 0 ELSE 1) + (IF errStream = "None" THEN 0 ELSE 1)

\* every process is taken for a child of the program
ParentIsSelf_Always(parent) == TRUE

\* line 60: "self.process.parent() == psutil.Process()"
ParentIsSelf(parent) == parent = "self"

\* lines 60-65: the parent test, the streams, then kill(False)
AtExitParent ==
    /\ pc = "ae_parent"
    /\ IF ParentError(mainSt) # "ok"
       THEN /\ err' = ParentError(mainSt)
            /\ pc' = "exited"
            /\ UNCHANGED <<ret, killExc, streamVars>>
       ELSE IF ParentIsSelf(mainParent)
       THEN /\ stdout' = close(stdout)
            /\ stderr' = close(stderr)
            /\ nClose' = nClose + Closes(stdout, stderr)
            /\ pc' = "k_check"
            /\ ret' = "ae"
            /\ killExc' = FALSE
            /\ err' = err
       ELSE /\ err' = "ok"
            /\ pc' = "exited"
            /\ UNCHANGED <<ret, killExc, streamVars>>
    /\ UNCHANGED <<process, backend, chainVars, osVars, i, todo, enumerated,
                   opVars, errProc, countVars>>

----------------------------------------------------------------------------
(* The environment: processes exit on their own *)

\* the exit status of a process nobody killed: Rpc's own child waits to be
\* reaped by Rpc, any other process is reaped by its parent
Exited(parent) == IF parent = "self" THEN "zombie" ELSE "gone"

EnvMainExit ==
    /\ pc # "exited"
    /\ mainSt = "running"
    /\ mainSt' = Exited(mainParent)
    /\ ownExit' = TRUE
    /\ UNCHANGED <<pc, process, backend, chainVars, mainParent, childSt, i,
                   killVars, opVars, err, errProc, countVars, streamVars>>

EnvChildExit(c) ==
    /\ pc # "exited"
    /\ childSt[c] = "running"
    /\ childSt' = [childSt EXCEPT ![c] = "gone"]
    /\ UNCHANGED <<pc, process, backend, chainVars, mainSt, mainParent,
                   ownExit, i, killVars, opVars, err, errProc, countVars,
                   streamVars>>

----------------------------------------------------------------------------
Next ==
    \/ \E cmd \in Cmds, prov \in BOOLEAN, n \in 0..MaxChildren,
          pipe \in BOOLEAN : Launch(cmd, prov, n, pipe)
    \/ LaunchConn
    \/ LaunchLive
    \/ Attach
    \/ AttachVersion
    \/ \E exc \in BOOLEAN : Kill(exc)
    \/ KillCheck
    \/ KillChild
    \/ KillMain
    \/ IsActiveCall
    \/ ControlCall
    \/ AtExit
    \/ AtExitParent
    \/ EnvMainExit
    \/ \E c \in Children : EnvChildExit(c)

Spec == Init /\ [][Next]_vars

\* Python runs launch to its end: once the poll loop is entered, the next
\* step of the loop, and of the kill it calls, is always taken
FairSpec ==
    /\ Spec
    /\ WF_vars(LaunchConn)
    /\ WF_vars(LaunchLive)
    /\ WF_vars(KillCheck)
    /\ WF_vars(KillChild)
    /\ WF_vars(KillMain)

TypeOK ==
    /\ pc \in {"idle", "l_conn", "l_live", "a_version", "k_check", "k_child",
               "ae_parent", "exited"}
    /\ backend \in {"ganache", "geth"}
    /\ i \in 0..(PollCap - 1)
    /\ stdout \in {"None", "open", "closed"}
    /\ stderr \in {"None", "open", "closed"}
    /\ nClose \in 0..2
    /\ Len(callLog) <= 2
    /\ (pc = "idle" => i = 0 /\ todo = << >> /\ ret = "idle" /\ ~killExc)

----------------------------------------------------------------------------
(* Properties *)

LaunchDone == pc = "idle" /\ opName = "launch" /\ err # "AlreadyActive"

NoChildRuns == \A c \in Children : childSt[c] # "running"

\* C1: whenever launch or attach, called on an inactive session, ends with
\* an error, then the handle is None, is_active() is False, and the process
\* launch started and its children no longer run.  (The handle is asked to
\* be None only after the errors that come once a process was started or
\* found: before that the call has not touched the handle.)
C1_FailureLeavesInactive ==
    (pc = "idle" /\ opName \in {"launch", "attach"}
       /\ err \notin {"ok", "pending", "AlreadyActive"})
    => /\ ~IsActive
       /\ (err \notin {"ValueError", "ProcessLookupError"} => process = None)
       /\ (opName = "launch" => mainSt # "running" /\ NoChildRuns)

\* C2, as claimed: after a launch from an inactive session, is_active() is
\* True if and only if the poll saw isConnected() return True.
C2_ActiveIffPollSucceeded ==
    LaunchDone => (IsActive <=> pollOk)

\* C2, amended: after a launch with a provider, is_active() is True only if
\* the poll saw isConnected() return True, and is True whenever the poll did
\* and the launched process has not exited; after a launch without a
\* provider, is_active() is True exactly while the launched process has not
\* exited.
C2_ActiveAfterLaunch ==
    LaunchDone =>
        IF provider
        THEN /\ IsActive => pollOk
             /\ (pollOk /\ mainSt = "running") => IsActive
        ELSE IsActive <=> mainSt = "running"

C2_Witness ==
    LaunchDone /\ provider /\ pollOk /\ IsActive

\* C3: launch and attach on an active session raise "RPC is already active"
\* and change nothing: the handle, the backend, the chain status and the
\* processes stay as they are, and the chain and the backend are not told.
C3_ActiveSessionBlocks ==
    [][ (IsActive /\ (Attach \/ \E cmd \in Cmds, prov \in BOOLEAN,
                                    n \in 0..MaxChildren,
                                    pipe \in BOOLEAN :
                                        Launch(cmd, prov, n, pipe)))
        => /\ err' = "AlreadyActive"
           /\ pc' = "idle"
           /\ UNCHANGED <<process, backend, chainVars, osVars>>
           /\ nConn' = 0 /\ nDisc' = 0 /\ nOnConn' = 0
           /\ signalled' = {} ]_vars

C3_Witness ==
    /\ pc = "idle" /\ opName = "launch" /\ err = "AlreadyActive"
    /\ IsActive /\ process.type = "Process" /\ chainStatus = "connected"

\* C4: a launch with a provider whose process never exits on its own and
\* whose poll never sees isConnected() return True ends with the connection
\* timeout error; by then the process and its children were killed, the
\* handle is None, and the chain was told "disconnected" once and
\* "connected" never during the launch.
C4_TimeoutKillsAndDisconnects ==
    (LaunchDone /\ provider /\ ~ownExit /\ ~pollOk)
    => /\ err = "Timeout"
       /\ 0 \in signalled
       /\ mainSt = "gone"
       /\ NoChildRuns
       /\ process = None
       /\ nDisc = 1
       /\ nConn = 0
       /\ chainStatus = "disconnected"

C4_Witness ==
    LaunchDone /\ err = "Timeout" /\ signalled = {0, 1} /\ enumerated = {1}

\* C5: when the poll finds the launched process exited, launch kills the
\* children it left behind and clears the session before it raises the
\* process-exited error.
C5_ExitedProcessCleanedUp ==
    (LaunchDone /\ err = "ProcessExited")
    => /\ NoChildRuns
       /\ process = None

\* C6, as claimed: after a kill that returns normally on a session that was
\* started, is_active() is False and the chain has been told "disconnected"
\* exactly once since it was last told "connected".
C6_OneDisconnectSinceConnect ==
    (pc = "idle" /\ opName = "kill" /\ err = "ok" /\ mainSt # "none")
    => /\ ~IsActive
       /\ discSince = "one"

\* C6, amended: a kill that finds the session active and returns normally
\* leaves is_active() False and tells the chain "disconnected" exactly once
\* (the only time since the last "connected" if that was the last thing the
\* chain was told); a kill that finds the session inactive and returns
\* normally tells the chain nothing.
C6_KillDisconnectsOnce ==
    [][ (opName = "kill" /\ pc # "idle" /\ pc' = "idle" /\ err' = "ok")
        => /\ ~IsActive'
           /\ IF pc = "k_child"
              THEN /\ nDisc' = 1
                   /\ nConn' = 0
                   /\ chainStatus' = "disconnected"
                   /\ (chainStatus = "connected" => discSince' = "one")
              ELSE /\ nDisc' = 0
                   /\ nConn' = 0
                   /\ UNCHANGED chainVars ]_vars

C6_Witness ==
    /\ pc = "idle" /\ opName = "kill" /\ err = "ok"
    /\ 0 \in signalled /\ discSince = "one" /\ nDisc = 1

\* C7: kill on an inactive session raises "RPC is not active" if and only
\* if exc is True, and otherwise does nothing (no process is signalled, the
\* chain is not told, handle and backend are unchanged); the second of two
\* kill(False) calls in a row never raises.
C7_InactiveKill ==
    /\ [][ (opName = "kill" /\ pc = "k_check" /\ ~IsActive /\ pc' # "k_check")
           => /\ pc' = "idle"
              /\ (err' = "NotActive") <=> opExc
              /\ err' \in {"ok", "NotActive"}
              /\ UNCHANGED <<process, backend, chainVars, childSt>>
              /\ signalled' = {}
              /\ nConn' = 0 /\ nDisc' = 0 /\ nOnConn' = 0 ]_vars
    /\ [](( pc = "idle" /\ opName = "kill" /\ ~opExc /\ prevKillF) => err = "ok")

C7_Witness ==
    /\ pc = "idle" /\ opName = "kill" /\ ~opExc /\ prevKillF /\ err = "ok"
    /\ process # None

\* C8: in a kill of an active session every enumerated child is visited
\* before the process itself is killed, a child that is already gone stops
\* nothing, and unless the process itself has vanished the kill ends with
\* every enumerated child and the process dead, the process waited for, the
\* handle None and the chain told "disconnected".
C8_ChildrenThenProcess ==
    /\ [](pc = "k_child"
            => \A c \in enumerated \ SeqToSet(todo) : childSt[c] = "gone")
    /\ [][ (pc = "k_child" /\ pc' # "k_child")
           => /\ todo = << >>
              /\ mainSt # "gone"
                   => /\ err' \in {"ok", "Timeout"}
                      /\ 0 \in signalled'
                      /\ \A c \in enumerated : childSt'[c] = "gone"
                      /\ mainSt' = "gone"
                      /\ process' = None
                      /\ chainStatus' = "disconnected"
                      /\ nDisc' = nDisc + 1 ]_vars

C8_Witness ==
    /\ pc = "idle" /\ opName = "kill" /\ err = "ok" /\ process = None
    /\ 0 \in signalled
    /\ \E c, d \in enumerated : c \in signalled /\ d \notin signalled

\* C9: kill(False) and the exit hook never raise, whatever the processes do
\* in the meantime.
C9_TeardownNeverRaises ==
    ((opName = "kill" /\ ~opExc) \/ opName = "at_exit")
    => err \in {"ok", "pending"}

\* C10: the backend a launch uses is the one mapped to the known key the
\* command starts with, and the default one (ganache) for any other command,
\* whatever an earlier session selected.
C10_BackendByCommand ==
    LaunchDone => backend = SelectFrom(LAUNCH_BACKENDS, 1, opCmd, "ganache")

\* a successful attach has returned
AttachDone == pc = "idle" /\ opName = "attach" /\ err = "ok"

\* in the view v, the process pid has a connection at the address looked
\* for: among its own connections, or in the system-wide table as the
\* local or the remote end
ListensAt(v, pid) ==
    \/ \E k \in 1..Len(v.procs) :
          /\ v.procs[k].pid = pid
          /\ v.procs[k].raises = "no"
          /\ v.addr \in v.procs[k].conns
    \/ \E k \in 1..Len(v.conns) :
          /\ v.conns[k].pid = pid
          /\ (v.conns[k].laddr = v.addr \/ v.conns[k].raddr = v.addr)

\* two characters that differ at most in case
SameLetter(a, b) ==
    \/ a = b
    \/ a \in DOMAIN Upper /\ Upper[a] = b
    \/ b \in DOMAIN Upper /\ Upper[b] = a

\* id is a prefix of s, the case of the letters set aside
PrefixNoCase(id, s) ==
    Len(s) >= Len(id) /\ \A k \in 1..Len(id) : SameLetter(id[k], s[k])

\* the backend the claim expects attach to select for a client version
AttachBackendFor(version, cur) ==
    IF PrefixNoCase(Str_testrpc, version) THEN "ganache"
    ELSE IF PrefixNoCase(Str_geth, version) THEN "geth"
    ELSE cur

\* C11: after a successful attach the handle is a process that the OS view
\* showed at the resolved address, the chain was told "connected" once and
\* after that on_connection() was called once, and isConnected() was never
\* called; the step that reads the client version sets the backend to the
\* one whose identifier is a prefix of the version, case set aside, and
\* leaves the backend alone when none is.
C11_AttachConnectsOnce ==
    /\ [](AttachDone =>
            /\ process.type = "Process"
            /\ ListensAt(opView, process.pid)
            /\ chainStatus = "connected"
            /\ nConn = 1 /\ nOnConn = 1
            /\ callLog = <<"connected", "on_connection">>
            /\ ~polled /\ ~pollOk)
    /\ [][(pc = "a_version" /\ err' = "ok")
           => backend' = AttachBackendFor(opView'.version, backend)]_vars

C11_Witness ==
    /\ AttachDone
    /\ process.pid = "p8"
    /\ PrefixNoCase(Str_geth, opView.version)
    /\ backend = "geth"

\* attach has failed because the finder found no process
AttachLookupFailed ==
    pc = "idle" /\ opName = "attach" /\ err = "ProcessLookupError"

\* the view v shows no process at the address looked for
NobodyListens(v) == \A pid \in {"p7", "p8"} : ~ListensAt(v, pid)

\* C12: an attach whose OS view shows no process at the address, neither
\* among the processes' own connections nor in the system-wide table, ends
\* with ProcessLookupError; after it the handle is None, is_active() is
\* False, the chain and the backend were not told, and the backend is the
\* one it was before the call.
C12_LookupFailureLeavesInactive ==
    /\ []((pc = "idle" /\ opName = "attach" /\ opView # NoView
             /\ NobodyListens(opView)) => err = "ProcessLookupError")
    /\ [](AttachLookupFailed =>
            /\ process = None
            /\ ~IsActive
            /\ nConn = 0 /\ nOnConn = 0
            /\ callLog = << >>)
    /\ [][AttachLookupFailed' /\ pc = "idle" /\ opName' # opName
           => backend' = backend]_vars

\* C13: the exit hook signals the process only when the program itself
\* started it: a hook that has signalled anything ran on the program's own
\* child, and an attached process and its children are never signalled by
\* it.  The hook goes on to kill exactly when the session is active and the
\* parent of the process is the program; a process the program started is
\* never left running when the hook is over; on an inactive session the
\* hook changes nothing.
C13_ExitHookKillsOwnChild ==
    /\ []((opName = "at_exit" /\ signalled # {}) => mainParent = "self")
    /\ []((pc = "exited" /\ 0 \in signalled)
            => process = None /\ mainSt = "gone")
    /\ []((pc = "exited" /\ mainParent = "self") => mainSt # "running")
    /\ [][(pc = "idle" /\ opName' = "at_exit") =>
            /\ pc' = "ae_parent" <=> IsActive
            /\ ~IsActive =>
                 /\ pc' = "exited" /\ err' = "ok" /\ signalled' = {}
                 /\ UNCHANGED <<process, backend, chainVars, mainParent,
                                childSt, streamVars>>]_vars
    /\ [][(pc = "ae_parent" /\ pc' # "ae_parent") =>
            (pc' = "k_check" <=> (mainParent = "self" /\ mainSt # "gone"))]_vars

C13_Witness ==
    pc = "exited" /\ opName = "at_exit" /\ 0 \in signalled /\ err = "ok"

C15_NoProviderLaunch ==
    (LaunchDone /\ ~provider) =>
        /\ err = "ok"
        /\ process = [type |-> "Popen", pid |-> "p1"]
        /\ (~ownExit => mainSt = "running" /\ IsActive)
        /\ chainStatus = "disconnected"
        /\ nDisc = 1
        /\ callLog = <<"disconnected">>
        /\ ~polled /\ ~pollOk
        /\ nConn = 0 /\ nOnConn = 0

C15_Witness ==
    LaunchDone /\ ~provider /\ IsActive /\ nDisc = 1 /\ stdout = "open"

\* launch is in its poll loop
InPoll == pc \in {"l_conn", "l_live"}

\* C16: a launch with a provider ends, and ends in one of three ways.  The
\* loop variable stays below 100 and goes up by one with every pass, so
\* there are at most 100 isConnected() checks.  The loop is left only by a
\* check that returns True, which is then the first one: the chain is told
\* "connected" and then on_connection() is called, once each, and launch
\* returns; or by a liveness check that finds the process dead, which
\* leads to RPCProcessError; or by the 100th pass with the process alive,
\* which leads to RPCConnectionError.  A launch with a provider that has
\* ended has ended in one of the three.
C16_PollEndsInThreeWays ==
    /\ [](InPoll => i < PollCap /\ provider /\ opName = "launch")
    /\ []((pc = "l_live") => polled /\ ~pollOk)
    /\ [][(pc = "l_live" /\ pc' = "l_conn") => i' = i + 1]_vars
    /\ [][(pc = "l_conn" /\ pc' = "l_live") => i' = i]_vars
    /\ [][(InPoll /\ ~InPoll') =>
            \/ /\ pc = "l_conn" /\ pc' = "idle"
               /\ ~pollOk /\ pollOk'
               /\ err' = "ok"
               /\ chainStatus' = "connected"
               /\ callLog' = <<"connected", "on_connection">>
               /\ nConn' = 1 /\ nOnConn' = 1
            \/ /\ pc = "l_live" /\ pc' = "k_check" /\ ret' = "l_exited"
               /\ mainSt' # "running"
            \/ /\ pc = "l_live" /\ pc' = "k_check" /\ ret' = "l_timeout"
               /\ mainSt' = "running"
               /\ i = PollCap - 1]_vars
    /\ [][(pc = "l_live" /\ mainSt = "running" /\ i < PollCap - 1)
           => pc' \in {"l_live", "l_conn"}]_vars
    /\ [][(pc \in {"k_check", "k_child"} /\ pc' = "idle"
            /\ ret \in {"l_exited", "l_timeout"})
           => err' = (IF ret = "l_exited" THEN "ProcessExited" ELSE "Timeout")]_vars
    /\ []((LaunchDone /\ provider) =>
            /\ err \in {"ok", "ProcessExited", "Timeout"}
            /\ (err = "ok" <=> pollOk)
            /\ polled)
    /\ (InPoll ~> (LaunchDone /\ provider))

C16_Witness ==
    LaunchDone /\ provider /\ err = "Timeout" /\ polled

\* the teardown of a process the program launched, and which did not exit
\* by itself, is over: an explicit kill has killed it, or the exit hook has
\* run
TornDown ==
    /\ mainParent = "self"
    /\ ~ownExit
    /\ \/ pc = "idle" /\ opName = "kill" /\ err = "ok" /\ 0 \in signalled
       \/ pc = "exited"

\* C17: for a launched process whose stdout and stderr are pipes, once the
\* teardown is over (an explicit kill alone, the exit hook alone, or a kill
\* and then the exit hook) each of the two pipes has been closed, by one
\* close() call each; and at no time has a pipe been closed twice.
C17_StreamsClosedOnce ==
    /\ nClose <= Closes(stdout, stderr)
    /\ (TornDown /\ stdout # "None") =>
          /\ stdout = "closed"
          /\ stderr = "closed"
          /\ nClose = 2

\* C18: between calls the handle is None once kill has killed the process,
\* and once the program has found the process it launched terminated (the
\* poll() of is_active, of kill's guard or of launch's liveness check has
\* reaped it, so that it is gone).
C18_DetectionClearsHandle ==
    /\ (pc = "idle" /\ opName = "kill" /\ 0 \in signalled) => process = None
    /\ (pc = "idle" /\ opName \in {"is_active", "kill", "launch"}
          /\ mainParent = "self" /\ mainSt = "gone")
          => process = None

\* C19: the RPCConnectionError that launch raises carries the handle of the
\* process that launch started and killed.
C19_TimeoutErrorNamesProcess ==
    (LaunchDone /\ err = "Timeout")
        => errProc = [type |-> "Popen", pid |-> "p1"]

\* C20: whenever the last notification the chain received is "connected",
\* the handle is not None: this holds in every state, so before and after
\* every call, whatever the processes do in between.  A step that tells
\* the chain "connected" is taken with the handle already set and leaves it
\* set; the handle goes from set to None only in the last step of kill,
\* which has signalled the process and tells the chain "disconnected".
C20_ConnectedHasHandle ==
    /\ [](chainStatus = "connected" => process # None)
    /\ [][(nConn' = nConn + 1) => (process # None /\ process' = process)]_vars
    /\ [][(process # None /\ process' = None) =>
            /\ pc = "k_child"
            /\ 0 \in signalled'
            /\ chainStatus' = "disconnected"
            /\ nDisc' = nDisc + 1
            /\ callLog' = Append(callLog, "disconnected")]_vars

C20_Witness ==
    /\ pc = "idle" /\ opName = "control"
    /\ chainStatus = "connected"
    /\ process # None /\ mainSt = "gone"

====
